---- MODULE Spec2Model ----
(***************************************************************************)
(* Model of the collection scheduler of SensorReader v0.4                  *)
(* (Code/SensorReader/v0.4/SensorReader.py): BaseReader.start_collection   *)
(* and the threads it starts (update_output_file, read_all_requests,       *)
(* start_dropbox_upload, upload_to_dropbox), with the Modbus reader's      *)
(* execute_request as the transport.                                       *)
(*                                                                         *)
(* Timing.  The scheduler loop and the upload cadence loop are phase       *)
(* locked to the wall clock by wait_for_interval: their own statements     *)
(* take no model time, so the clock cannot pass a wake-up time while the   *)
(* loop is able to run; the same holds for the statements of               *)
(* update_output_file before its upload, which do no I/O.  The I/O of the  *)
(* threads (files, the sensor, the network) takes any amount of time, and  *)
(* all threads interleave freely, since the code holds no lock and joins   *)
(* no thread; MaxLate bounds how many of them are still running when the   *)
(* clock moves on.                                                         *)
(*                                                                         *)
(* update_output_file builds the new name in three statements (lines 496   *)
(* to 498); they are taken as one step, so a name is None or complete,     *)
(* except in SpecName, which takes them one by one.                        *)
(*                                                                         *)
(* Files.  A Python 2 file object is fully buffered: what a thread writes  *)
(* reaches the file when the with-block closes it, as one append.          *)
(***************************************************************************)
EXTENDS Integers, Sequences, FiniteSets, TLC

\* ---------------------------------------------------------------- bounds
MaxTicks == 3          \* ticks of the read cadence that are explored
MaxUploads == 2        \* dispatches of the upload cadence that are explored
MaxLate == 1           \* threads that may still be running when the clock moves on
NumRequests == 1       \* length of the RequestSet
SecondsPerDay == 86400
LastDay == 2           \* the clock is explored up to the end of this day

\* wait_next_minute returns at second 0 of a minute: the run starts on a minute
StartTimes == {86280, 86340}
ReadIntervals == {60}
UploadIntervals == {120}

\* the constructor's defaults (lines 176-178)
sensor_name == "sensor"
sensor_location == "location"
output_file_ext == ".csv"
output_file_folder == "Outputs"

VARIABLES
    now,              \* wall clock, in seconds since the start of day 1
    connected,        \* what test_connection() returns
    dropbox_settings, \* TRUE iff dropbox keys were given to the constructor
    dropbox_client,   \* TRUE once initialize_dropbox_client has run
    read_interval,
    upload_interval,
    mainPc,           \* position of start_collection
    wakeAt,           \* the boundary wait_for_interval of the read loop returns at
    previous_date,    \* local of start_collection; 0 is None
    output_filename,  \* BaseReader.output_filename
    files,            \* the file system: name -> sequence of lines
    tickTimes,        \* start time of every tick so far
    upd,              \* the update_output_file threads, 0 is the one before the loop
    rd,               \* the read_all_requests threads, by tick
    cadPc,            \* position of start_dropbox_upload
    cadWake,          \* the boundary its wait_for_interval returns at
    dispTimes,        \* time of every dispatch of the upload cadence so far
    up,               \* the upload_to_dropbox threads of the cadence, by dispatch
    uploads,          \* every upload attempt made so far
    arg_types,        \* type() of the arguments of start_collection
    raised,           \* the exception start_collection has raised, or "none"
    conn_tests,       \* calls of test_connection made by start_collection
    header_row,       \* BaseReader.header_row; the empty text is None
    reader,           \* the class of the reader object
    requests,         \* input_requests: the 'type' of every request, in order
    database_settings,\* TRUE iff database keys were given to the constructor
    mini_voltage,     \* IrradianceReader.mini_voltage; 0 is None
    temperature,      \* IrradianceReader.temperature; 0 is None
    inserts,          \* calls of upload_to_database made so far, by tick
    statements,       \* the INSERT statements given to cursor.execute so far, by tick
    utc,              \* datetime.utcnow(), in steps of a tenth of a second
    wait,             \* the wait_next_minute or wait_for_interval in progress
    starts,           \* the utc at which every tick so far has started
    sink,             \* the Dropbox app folder: name -> the content last put
    reuploads,        \* puts so far of a content the folder already held under the name
    kwargs,           \* the arguments BaseReader.__init__ is called with
    dirs,             \* the directories of the current directory
    ctorPc,           \* position of BaseReader.__init__
    ctor_raised       \* the exception BaseReader.__init__ has raised, or "none"

\* the call of start_collection
callVars == <<arg_types, raised, conn_tests, header_row>>
\* the reader object and its sensor
readerVars == <<reader, requests, database_settings, mini_voltage, temperature, inserts,
               statements>>
\* the scheduler thread seen on the sub-second clock
waitVars == <<utc, wait, starts>>
\* the Dropbox side
sinkVars == <<sink, reuploads>>
\* the construction of the reader object
ctorVars == <<kwargs, dirs, ctorPc, ctor_raised>>

vars == <<now, connected, dropbox_settings, dropbox_client, read_interval,
          upload_interval, mainPc, wakeAt, previous_date, output_filename, files,
          tickTimes, upd, rd, cadPc, cadWake, dispTimes, up, uploads,
          callVars, readerVars, waitVars, sinkVars, ctorVars>>

\* ---------------------------------------------------------------- values
\* strftime('%y%m%d') of the clock: the day number, 1 for the first day
DateStamp(t) == (t \div SecondsPerDay) + 1

\* A file name, by its parts; NoName is None
NoName == [folder |-> "", date |-> 0, name |-> "", location |-> "", ext |-> ""]

\* lines 496-498: '<folder>/<date>_<sensor name>_<sensor location><ext>'
DayFile(d) == [folder |-> output_file_folder, date |-> d, name |-> sensor_name,
               location |-> sensor_location, ext |-> output_file_ext]

\* the constructor's default (line 177)
delimiter == ","

\* Text is a sequence of tokens: a token is the delimiter, or a piece of text
\* that holds no delimiter.
\* delimiter.join(texts)
RECURSIVE Join(_)
Join(texts) ==
    IF texts = <<>> THEN <<>>
    ELSE IF Len(texts) = 1 THEN texts[1]
    ELSE texts[1] \o <<delimiter>> \o Join(Tail(texts))

\* the number of fields a reader of the file finds in a text: one more than
\* the delimiters in it
Fields(text) == 1 + Cardinality({p \in 1..Len(text) : text[p] = delimiter})

\* a value read from the sensor: a number, or the string of a UTF8 register
Num(n) == [kind |-> "num", n |-> n, s |-> <<>>]
Utf8(s) == [kind |-> "str", n |-> 0, s |-> s]

\* str(result), line 322
Str(v) == IF v.kind = "num" THEN <<ToString(v.n)>> ELSE v.s

\* what a Modbus register of a type can decode to (lines 650-657)
Readings(type) ==
    IF type = "UTF8" THEN {Utf8(<<"ab">>), Utf8(<<"a", delimiter, "b">>)}
    ELSE {Num(7)}

\* what the ADC and the RTD of the irradiance sensor can read (lines 40-44)
Voltages == {1, 2}
Temperatures == {25}

\* line 1312: mini_voltage / 54.57 * 1000 / (1 + 0.0005 * (temperature - 25)),
\* in whole units: v * 1000 * 100 * 2000 / (5457 * (2000 + t - 25))
Irradiance(v, t) == (v * 200000000) \div (5457 * (1975 + t))

\* a request of the RequestSet (lines 629-634, 1158-1162)
Request(name, type) == [name |-> name, type |-> type]

\* the result of a request, as get_output_row has it: which request of the
\* RequestSet was executed, and the value it returned
Result(i, v) == [req |-> i, val |-> v]

\* get_header, lines 478-480: the text of the header row
get_header(reqs) ==
    <<"date_stamp", delimiter, "time_stamp", delimiter>>
        \o Join([i \in DOMAIN reqs |-> <<reqs[i].name>>]) \o <<"\n">>

\* header_row = None, line 171
NoHeader == <<>>

\* lines of a file: the header row, or the data row of tick t stamped with
\* date d; cols is the text after the date stamp and the time stamp, which
\* hold no delimiter, and out the results the text was made from
\* get_header, lines 478-480
HeaderLine == [t |-> 0, d |-> 0, out |-> <<>>,
               cols |-> Join([i \in DOMAIN requests |-> <<requests[i].name>>])]
\* lines 316-323
Row(t, d, out) == [t |-> t, d |-> d, out |-> out,
                   cols |-> Join([i \in DOMAIN out |-> Str(out[i].val)])]

TickCount == Len(tickTimes)
DispCount == Len(dispTimes)

\* open(name, ...): None is a TypeError
CanOpen(fn) == fn # NoName

IdleUpd == [pc |-> "idle", prev |-> 0, pf |-> NoName, date |-> 0]
IdleRd == [pc |-> "idle", fn |-> NoName, hdr |-> FALSE, date |-> 0, i |-> 0, err |-> "none",
           out |-> <<>>, ins |-> "none"]
IdleUp == [pc |-> "idle", fn |-> NoName, snap |-> <<>>]
\* no wait in progress; entered, over1 and over2 are the utc at which the wait
\* was entered and the overshoot of its first and second sleep
IdleWait == [fn |-> "none", pc |-> "none", entered |-> 0, over1 |-> 0, over2 |-> 0]

\* ---------------------------------------------------------------- the constructor
\* A Python value as BaseReader.__init__ inspects it: its type(), the
\* characters of a string, the items of a dict as <<key, value>> pairs
PyStr(chars) == [type |-> "str", val |-> chars, items |-> <<>>]
PyInt == [type |-> "int", val |-> <<"7">>, items |-> <<>>]
None == [type |-> "NoneType", val |-> <<>>, items |-> <<>>]
PyDict(items) == [type |-> "dict", val |-> <<>>, items |-> items]

\* the lengths of lines 244-254
name_limit == 50
ext_limit == 10
Chars(n) == [i \in 1..n |-> "x"]

\* s.find(d) != -1
Found(s, d) == \E i \in 0..(Len(s) - Len(d)) : SubSeq(s, i + 1, i + Len(d)) = d

\* the keys looked for in dropbox_keys (line 272) and database_keys (line 285)
dropbox_check_keys == {"APP_KEY", "APP_SECRET", "TOKEN_KEY", "TOKEN_SECRET", "ACCESS_TYPE", "APP_FOLDER"}
database_check_keys == {"HOST", "USER", "PASSWORD", "DBNAME", "DBTABLE"}

\* a dict of the keys ks, every value a string; with the value of key k replaced
Item(k, v) == <<PyStr(<<k>>), v>>
SeqOf(S) == CHOOSE q \in [1..Cardinality(S) -> S] : \A x \in S : \E i \in DOMAIN q : q[i] = x
Keys(ks) == PyDict([i \in 1..Cardinality(ks) |-> Item(SeqOf(ks)[i], PyStr(<<"secret">>))])
With(d, item) == PyDict(<<item>> \o SelectSeq(d.items, LAMBDA it : it[1] # item[1]))
Without(d, k) == PyDict(SelectSeq(d.items, LAMBDA it : it[1] # PyStr(<<k>>)))

\* dict[key]
Get(d, k) == LET i == CHOOSE i \in DOMAIN d.items : d.items[i][1] = PyStr(<<k>>)
             IN  d.items[i][2]
HasKey(d, k) == \E i \in DOMAIN d.items : d.items[i][1] = PyStr(<<k>>)

\* the arguments the constructor is called with
NameArgs == {PyStr(<<"s", "e", "n", "s", "o", "r">>), PyInt, PyStr(<<>>), PyStr(Chars(name_limit)),
             PyStr(<<"a", ",", "b">>)}
DelimiterArgs == {PyStr(<<",">>), PyInt, PyStr(<<>>), PyStr(<<";", ";">>)}
ExtArgs == {PyStr(<<".", "c", "s", "v">>), PyInt, PyStr(<<>>), PyStr(<<"c", "s", "v">>),
            PyStr(<<".">> \o Chars(ext_limit))}
FolderArgs == {PyStr(<<"O", "u", "t", "p", "u", "t", "s">>), PyInt, PyStr(<<>>), PyStr(Chars(name_limit))}
KeysArgs(ks) ==
    LET k == CHOOSE k \in ks : TRUE
    IN  {None, PyStr(<<"keys">>), Keys(ks), Without(Keys(ks), k),
         With(Keys(ks), Item(k, PyInt)),
         With(Keys(ks), <<PyInt, PyStr(<<"secret">>)>>)}

\* the defaults of line 176-178
DefaultArgs ==
    [sensor_name |-> PyStr(<<"s", "e", "n", "s", "o", "r">>),
     sensor_location |-> PyStr(<<"l", "o", "c", "a", "t", "i", "o", "n">>),
     dropbox_keys |-> None, database_keys |-> None, delimiter |-> PyStr(<<",">>),
     output_file_ext |-> PyStr(<<".", "c", "s", "v">>),
     output_file_folder |-> PyStr(<<"O", "u", "t", "p", "u", "t", "s">>)]

\* lines 231-254: the exception the validation of the five strings raises, or "none"
ArgsError(a) ==
    IF a.sensor_name.type # "str" THEN "TypeError"
    ELSE IF a.sensor_location.type # "str" THEN "TypeError"
    ELSE IF a.delimiter.type # "str" THEN "TypeError"
    ELSE IF a.output_file_ext.type # "str" THEN "TypeError"
    ELSE IF a.output_file_folder.type # "str" THEN "TypeError"
    ELSE IF \/ Len(a.sensor_name.val) = 0
            \/ Len(a.sensor_name.val) >= name_limit
            \/ Found(a.sensor_name.val, a.delimiter.val) THEN "ValueError"
    ELSE IF \/ Len(a.sensor_location.val) = 0
            \/ Len(a.sensor_location.val) >= name_limit
            \/ Found(a.sensor_location.val, a.delimiter.val) THEN "ValueError"
    ELSE IF Len(a.delimiter.val) = 0 \/ Len(a.delimiter.val) > 1 THEN "ValueError"
    ELSE IF Len(a.output_file_ext.val) < 1 \/ Len(a.output_file_ext.val) > ext_limit
         THEN "ValueError"
    ELSE IF a.output_file_ext.val[1] # "." THEN "ValueError"
    ELSE IF Len(a.output_file_folder.val) = 0 \/ Len(a.output_file_folder.val) >= name_limit
         THEN "ValueError"
    ELSE "none"

\* lines 269-278 and 282-291: the exception the validation of a dict of keys
\* raises, or "none"
KeysError(d, check_keys) ==
    IF d.type = "NoneType" THEN "none"
    ELSE IF d.type # "dict" THEN "TypeError"
    ELSE IF \E i \in DOMAIN d.items : d.items[i][1].type # "str" THEN "TypeError"
    ELSE IF \E k \in check_keys : ~HasKey(d, k) THEN "ValueError"
    ELSE IF \E k \in check_keys : Get(d, k).type # "str" THEN "ValueError"
    ELSE "none"

\* BaseReader.__init__, lines 231-292: the five strings are validated, the
\* output folder is created if it is not there (lines 265-266), then the
\* dropbox keys and the database keys are validated and kept
BaseReaderInit ==
    /\ ctorPc = "call"
    /\ LET e1 == ArgsError(kwargs)
           e2 == KeysError(kwargs.dropbox_keys, dropbox_check_keys)
           e3 == KeysError(kwargs.database_keys, database_check_keys)
           e  == IF e1 # "none" THEN e1 ELSE IF e2 # "none" THEN e2 ELSE e3
       IN  /\ ctor_raised' = e
           /\ ctorPc' = IF e = "none" THEN "done" ELSE "raised"
           /\ dirs' = IF e1 = "none" THEN dirs \cup {kwargs.output_file_folder.val} ELSE dirs
           /\ dropbox_settings' = (e1 = "none" /\ e2 = "none" /\ kwargs.dropbox_keys.type = "dict")
           /\ database_settings' = (e = "none" /\ kwargs.database_keys.type = "dict")
    /\ UNCHANGED <<now, connected, dropbox_client, read_interval, upload_interval, mainPc,
                   wakeAt, previous_date, output_filename, files, tickTimes, upd, rd,
                   cadPc, cadWake, dispTimes, up, uploads, callVars, reader, requests,
                   mini_voltage, temperature, inserts, statements, waitVars, sinkVars, kwargs>>

\* the constructor has returned: the defaults, and the folder is there
Built ==
    /\ kwargs = DefaultArgs
    /\ dirs = {DefaultArgs.output_file_folder.val}
    /\ ctorPc = "done"
    /\ ctor_raised = "none"

\* ---------------------------------------------------------------- Init
\* the types an argument of start_collection is given with: the int the code
\* asks for, or another type (the docstring of start_collection says float)
ArgTypes == {"int", "float"}
DefaultTypes == [read_interval |-> "int", upload_interval |-> "int", print_output |-> "bool"]

\* the reader as its constructor leaves it (lines 165-174, 659, 1164-1166),
\* with room for `ticks` ticks and `ups` dispatches of the upload cadence, in
\* an output folder that holds the files fs
ConstructedIn(ticks, ups, fs) ==
    /\ dropbox_client = FALSE
    /\ mainPc = "validate"
    /\ wakeAt = now
    /\ previous_date = 0
    /\ output_filename = NoName
    /\ files = fs
    /\ tickTimes = <<>>
    /\ upd = [i \in 0..ticks |-> IdleUpd]
    /\ rd = [k \in 1..ticks |-> IdleRd]
    /\ cadPc = "off"
    /\ cadWake = 0
    /\ dispTimes = <<>>
    /\ up = [j \in 1..ups |-> IdleUp]
    /\ uploads = {}
    /\ raised = "none"
    /\ conn_tests = 0
    /\ header_row = NoHeader
    /\ mini_voltage = 0
    /\ temperature = 0
    /\ inserts = [k \in 1..ticks |-> 0]
    /\ statements = [k \in 1..ticks |-> <<>>]
    /\ utc = 0
    /\ wait = IdleWait
    /\ starts = <<>>
    /\ sink = <<>>
    /\ reuploads = 0
    /\ Built

\* the same, in an empty output folder
Constructed(ticks, ups) == ConstructedIn(ticks, ups, <<>>)

\* a Modbus reader without a database, called with well-typed arguments
Init ==
    /\ now \in StartTimes
    /\ connected \in BOOLEAN
    /\ dropbox_settings \in BOOLEAN
    /\ read_interval \in ReadIntervals
    /\ upload_interval \in {u \in UploadIntervals : u >= read_interval}
    /\ arg_types = DefaultTypes
    /\ reader = "ModbusSerialReader"
    /\ requests = [i \in 1..NumRequests |-> Request("name", "UInt16")]
    /\ database_settings = FALSE
    /\ Constructed(MaxTicks, MaxUploads)

\* ---------------------------------------------------------------- start_collection
\* a validation that leaves out the test of the connection
StartErrorUntested ==
    IF arg_types.read_interval # "int" THEN "TypeError"
    ELSE IF read_interval > SecondsPerDay \/ read_interval <= 0 THEN "ValueError"
    ELSE IF dropbox_settings /\ arg_types.upload_interval # "int" THEN "TypeError"
    ELSE IF dropbox_settings /\ upload_interval < read_interval THEN "ValueError"
    ELSE IF arg_types.print_output # "bool" THEN "TypeError"
    ELSE "none"

\* lines 552-564: the exception the validation raises, or "none"
StartError ==
    IF ~connected THEN "SystemError"
    ELSE IF arg_types.read_interval # "int" THEN "TypeError"
    ELSE IF read_interval > SecondsPerDay \/ read_interval <= 0 THEN "ValueError"
    ELSE IF dropbox_settings /\ arg_types.upload_interval # "int" THEN "TypeError"
    ELSE IF dropbox_settings /\ upload_interval < read_interval THEN "ValueError"
    ELSE IF arg_types.print_output # "bool" THEN "TypeError"
    ELSE "none"

\* lines 551-581: validation, the header, then the upload cadence thread and the first
\* update_output_file thread are started (wait_next_minute has returned at `now`)
StartCollection ==
    /\ mainPc = "validate"
    /\ conn_tests' = conn_tests + 1
    /\ raised' = StartError
    /\ IF StartError # "none"
       THEN /\ mainPc' = "raised"
            /\ UNCHANGED <<cadPc, upd, header_row>>
       ELSE /\ mainPc' = "loop"
            /\ header_row' = get_header(requests)
            /\ cadPc' = IF dropbox_settings THEN "init" ELSE "off"
            /\ upd' = [upd EXCEPT ![0] = [IdleUpd EXCEPT !.pc = "start", !.prev = 0]]
    /\ UNCHANGED <<now, connected, dropbox_settings, dropbox_client, read_interval,
                   upload_interval, wakeAt, previous_date, output_filename, files,
                   tickTimes, rd, cadWake, dispTimes, up, uploads, arg_types, waitVars,
                   readerVars, sinkVars, ctorVars>>

UpdEnded(i) == upd[i].pc \in {"idle", "done"}
RdEnded(k) == rd[k].pc \in {"idle", "done", "dead"}
UpEnded(j) == up[j].pc \in {"idle", "done", "failed"}

\* a loop that joins the threads of its earlier ticks before the next tick
TickReadyJoined ==
    /\ mainPc = "loop"
    /\ TickCount + 1 \in DOMAIN rd
    /\ now >= wakeAt
    /\ \A i \in DOMAIN upd : UpdEnded(i)
    /\ \A k \in DOMAIN rd : RdEnded(k)

\* a loop that an exception of one of its threads brings to an end
TickReadyAllAlive ==
    /\ mainPc = "loop"
    /\ TickCount + 1 \in DOMAIN rd
    /\ now >= wakeAt
    /\ \A k \in DOMAIN rd : rd[k].pc # "dead"

\* the loop of lines 585-595 is back at its top: wait_for_interval has returned
TickReady ==
    /\ mainPc = "loop"
    /\ TickCount + 1 \in DOMAIN rd
    /\ now >= wakeAt

\* a loop that does not keep the date of the tick (line 588 left out)
TickForgetsDate ==
    /\ TickReady
    /\ LET k == TickCount + 1 IN
        /\ upd' = [upd EXCEPT ![k] = [IdleUpd EXCEPT !.pc = "start", !.prev = previous_date]]
        /\ rd' = [rd EXCEPT ![k] = [IdleRd EXCEPT !.pc = "open"]]
        /\ tickTimes' = Append(tickTimes, now)
        /\ wakeAt' = now + read_interval
    /\ UNCHANGED <<now, connected, dropbox_settings, callVars, waitVars, readerVars, sinkVars, ctorVars, dropbox_client, read_interval,
                   upload_interval, mainPc, output_filename, files, cadPc, cadWake,
                   dispTimes, up, uploads, previous_date>>

\* lines 586-595: one tick of the read cadence
Tick ==
    /\ TickReady
    /\ LET k == TickCount + 1 IN
        /\ upd' = [upd EXCEPT ![k] = [IdleUpd EXCEPT !.pc = "start", !.prev = previous_date]]
        /\ previous_date' = DateStamp(now)
        /\ rd' = [rd EXCEPT ![k] = [IdleRd EXCEPT !.pc = "open"]]
        /\ tickTimes' = Append(tickTimes, now)
        /\ wakeAt' = now + read_interval
    /\ UNCHANGED <<now, connected, dropbox_settings, callVars, waitVars, readerVars, sinkVars, ctorVars, dropbox_client, read_interval,
                   upload_interval, mainPc, output_filename, files, cadPc, cadWake,
                   dispTimes, up, uploads>>

\* a handler that raises what it caught, without a look at the connection
LoopFailsReraised(at) ==
    /\ TickReady
    /\ mainPc' = "raised"
    /\ raised' = "error"
    /\ UNCHANGED <<now, connected, dropbox_settings, waitVars, readerVars, sinkVars, ctorVars, dropbox_client, read_interval,
                   upload_interval, output_filename, files, cadPc, cadWake, tickTimes,
                   dispTimes, up, uploads, rd, upd, previous_date, wakeAt, arg_types,
                   conn_tests, header_row>>

\* lines 596-601: a statement of the loop raises; Thread.start() raises
\* thread.error when no thread can be started, at line 587 before anything of
\* the tick has run, or at line 592 after its update thread has been started.
\* The handler tests the connection: it raises SystemError, or prints the
\* reason and start_collection returns
LoopFails(at) ==
    /\ TickReady
    /\ IF at = "update"
       THEN UNCHANGED <<upd, previous_date, tickTimes, wakeAt>>
       ELSE /\ upd' = [upd EXCEPT ![TickCount + 1] =
                          [IdleUpd EXCEPT !.pc = "start", !.prev = previous_date]]
            /\ previous_date' = DateStamp(now)
            /\ tickTimes' = Append(tickTimes, now)
            /\ UNCHANGED wakeAt
    /\ conn_tests' = conn_tests + 1
    /\ mainPc' = IF connected THEN "returned" ELSE "raised"
    /\ raised' = IF connected THEN "none" ELSE "SystemError"
    /\ UNCHANGED <<now, connected, dropbox_settings, waitVars, readerVars, sinkVars, ctorVars, dropbox_client, read_interval,
                   upload_interval, output_filename, files, cadPc, cadWake,
                   dispTimes, up, uploads, rd, arg_types, header_row>>

\* ---------------------------------------------------------------- upload_to_dropbox
\* lines 383-396: the attempt fails (and is caught) on a None name, a missing
\* file or a missing client; otherwise the network decides
UploadCanSucceed(fn) == fn # NoName /\ fn \in DOMAIN files /\ dropbox_client

\* what open(fn) reads (line 386)
Content(fn) == IF fn \in DOMAIN files THEN files[fn] ELSE <<>>

\* a put that adds what it sends to what the folder holds under the name
PutFileAppended(folder, fn, content) ==
    (fn :> ((IF fn \in DOMAIN folder THEN folder[fn] ELSE <<>>) \o content)) @@ folder

\* put_file(path, file, overwrite=True), lines 387-389
PutFile(folder, fn, content) == (fn :> content) @@ folder

\* lines 383-396 for the name fn: the file as it is now goes to the folder, or
\* the exception is caught and nothing is sent
Upload(ok, fn) ==
    IF ok
    THEN /\ sink' = PutFile(sink, fn, Content(fn))
         /\ reuploads' = reuploads +
                (IF fn \in DOMAIN sink /\ sink[fn] = Content(fn) THEN 1 ELSE 0)
    ELSE UNCHANGED sinkVars

\* an upload attempt: who made it, for which file name, whether the caller
\* had seen the date change (update_output_file only), and whether the file
\* was put
Attempt(src, id, fn, rot, ok) == [src |-> src, id |-> id, fn |-> fn, rot |-> rot, ok |-> ok]

\* ---------------------------------------------------------------- update_output_file
\* an update_output_file that sets the name whether the date has changed or not
UpdBeginRenames(i) ==
    /\ upd[i].pc = "start"
    /\ upd' = [upd EXCEPT ![i] = [@ EXCEPT !.pf = output_filename, !.date = DateStamp(now),
                                            !.pc = "set1"]]
    /\ UNCHANGED <<now, connected, dropbox_settings, callVars, waitVars, readerVars, sinkVars, ctorVars, dropbox_client, read_interval,
                   upload_interval, mainPc, wakeAt, previous_date, output_filename,
                   files, tickTimes, rd, cadPc, cadWake, dispTimes, up, uploads>>

\* an update_output_file that uploads only when the date has changed
UpdBeginRotationOnly(i) ==
    /\ upd[i].pc = "start"
    /\ LET d == DateStamp(now) IN
       upd' = [upd EXCEPT ![i] = IF d # upd[i].prev
                                  THEN [@ EXCEPT !.pf = output_filename, !.date = d, !.pc = "set1"]
                                  ELSE [IdleUpd EXCEPT !.pc = "done"]]
    /\ UNCHANGED <<now, connected, dropbox_settings, callVars, waitVars, readerVars, sinkVars, ctorVars, dropbox_client, read_interval,
                   upload_interval, mainPc, wakeAt, previous_date, output_filename,
                   files, tickTimes, rd, cadPc, cadWake, dispTimes, up, uploads>>

\* lines 493-495
UpdBegin(i) ==
    /\ upd[i].pc = "start"
    /\ LET d == DateStamp(now) IN
       upd' = [upd EXCEPT ![i] = [@ EXCEPT !.pf = output_filename, !.date = d,
                   !.pc = IF d # upd[i].prev THEN "set1" ELSE "upload"]]
    /\ UNCHANGED <<now, connected, dropbox_settings, callVars, waitVars, readerVars, sinkVars, ctorVars, dropbox_client, read_interval,
                   upload_interval, mainPc, wakeAt, previous_date, output_filename,
                   files, tickTimes, rd, cadPc, cadWake, dispTimes, up, uploads>>

\* lines 496-498
UpdSetName(i) ==
    /\ upd[i].pc = "set1"
    /\ output_filename' = DayFile(upd[i].date)
    /\ upd' = [upd EXCEPT ![i] = IF upd[i].prev # 0 THEN [@ EXCEPT !.pc = "upload"]
                                  ELSE [IdleUpd EXCEPT !.pc = "done"]]
    /\ UNCHANGED <<now, connected, dropbox_settings, callVars, waitVars, readerVars, sinkVars, ctorVars, dropbox_client, read_interval,
                   upload_interval, mainPc, wakeAt, previous_date, files, tickTimes,
                   rd, cadPc, cadWake, dispTimes, up, uploads>>

\* where update_output_file goes after the name: lines 501-502
AfterName(i) == IF upd[i].prev # 0 THEN [upd[i] EXCEPT !.pc = "upload"]
                ELSE [IdleUpd EXCEPT !.pc = "done"]

\* line 496, on its own: the name is the date, the sensor and the location
UpdLine496(i) ==
    /\ upd[i].pc = "set1"
    /\ output_filename' = [folder |-> "", date |-> upd[i].date, name |-> sensor_name,
                           location |-> sensor_location, ext |-> ""]
    /\ upd' = [upd EXCEPT ![i].pc = "set2"]
    /\ UNCHANGED <<now, connected, dropbox_settings, callVars, waitVars, readerVars, sinkVars, ctorVars, dropbox_client, read_interval,
                   upload_interval, mainPc, wakeAt, previous_date, files, tickTimes,
                   rd, cadPc, cadWake, dispTimes, up, uploads>>

\* line 497, on its own: the extension is added to the name as it is now
UpdLine497(i) ==
    /\ upd[i].pc = "set2"
    /\ output_filename' = [output_filename EXCEPT !.ext = @ \o output_file_ext]
    /\ upd' = [upd EXCEPT ![i].pc = "set3"]
    /\ UNCHANGED <<now, connected, dropbox_settings, callVars, waitVars, readerVars, sinkVars, ctorVars, dropbox_client, read_interval,
                   upload_interval, mainPc, wakeAt, previous_date, files, tickTimes,
                   rd, cadPc, cadWake, dispTimes, up, uploads>>

\* line 498, on its own: the folder is put before the name as it is now
UpdLine498(i) ==
    /\ upd[i].pc = "set3"
    /\ output_filename' = [output_filename EXCEPT !.folder =
                               IF @ = "" THEN output_file_folder
                               ELSE output_file_folder \o "/" \o @]
    /\ upd' = [upd EXCEPT ![i] = AfterName(i)]
    /\ UNCHANGED <<now, connected, dropbox_settings, callVars, waitVars, readerVars, sinkVars, ctorVars, dropbox_client, read_interval,
                   upload_interval, mainPc, wakeAt, previous_date, files, tickTimes,
                   rd, cadPc, cadWake, dispTimes, up, uploads>>

\* lines 501-502: the upload of the previous file name, run inside this thread;
\* its outcome is caught and dropped (lines 394-396)
UpdUpload(i) ==
    /\ upd[i].pc = "upload"
    /\ \E ok \in BOOLEAN :
        /\ ok => UploadCanSucceed(upd[i].pf)
        /\ Upload(ok, upd[i].pf)
        /\ uploads' = uploads \cup
               {Attempt("update", i, upd[i].pf, upd[i].date # upd[i].prev, ok)}
    /\ upd' = [upd EXCEPT ![i] = [IdleUpd EXCEPT !.pc = "done"]]
    /\ UNCHANGED <<now, connected, dropbox_settings, callVars, waitVars, readerVars, ctorVars, dropbox_client, read_interval,
                   upload_interval, mainPc, wakeAt, previous_date, output_filename,
                   files, tickTimes, rd, cadPc, cadWake, dispTimes, up>>

\* ---------------------------------------------------------------- read_all_requests
\* an open whose readline starts at the end of the file, and finds no header
RdOpenAtEnd(k) ==
    /\ rd[k].pc = "open"
    /\ IF ~CanOpen(output_filename)
       THEN /\ rd' = [rd EXCEPT ![k] = [@ EXCEPT !.pc = "dead", !.err = "TypeError"]]
            /\ UNCHANGED files
       ELSE LET fn == output_filename
                old == IF fn \in DOMAIN files THEN files[fn] ELSE <<>>
            IN  /\ files' = (fn :> old) @@ files
                /\ rd' = [rd EXCEPT ![k] = [@ EXCEPT !.pc = "req", !.fn = fn, !.hdr = TRUE,
                             !.date = DateStamp(now), !.i = 1]]
    /\ UNCHANGED <<now, connected, dropbox_settings, callVars, waitVars, readerVars, sinkVars, ctorVars, dropbox_client, read_interval,
                   upload_interval, mainPc, wakeAt, previous_date, output_filename,
                   tickTimes, upd, cadPc, cadWake, dispTimes, up, uploads>>

\* lines 346-349 and 314-316: open the current output file for append, look for
\* the header, take the stamps of the row
RdOpen(k) ==
    /\ rd[k].pc = "open"
    /\ IF ~CanOpen(output_filename)
       THEN /\ rd' = [rd EXCEPT ![k] = [@ EXCEPT !.pc = "dead", !.err = "TypeError"]]
            /\ UNCHANGED files
       ELSE LET fn == output_filename
                old == IF fn \in DOMAIN files THEN files[fn] ELSE <<>>
            IN  /\ files' = (fn :> old) @@ files
                /\ rd' = [rd EXCEPT ![k] = [@ EXCEPT !.pc = "req", !.fn = fn,
                             !.hdr = (old = <<>> \/ Head(old) # HeaderLine),
                             !.date = DateStamp(now), !.i = 1]]
    /\ UNCHANGED <<now, connected, dropbox_settings, callVars, waitVars, readerVars, sinkVars, ctorVars, dropbox_client, read_interval,
                   upload_interval, mainPc, wakeAt, previous_date, output_filename,
                   tickTimes, upd, cadPc, cadWake, dispTimes, up, uploads>>

\* what the with-block of line 346 leaves in the file when it closes
Flushed(r, lines) == (IF r.hdr THEN <<HeaderLine>> ELSE <<>>) \o lines

\* the read thread k ends with an exception: the with-block closes the file
Dies(k, error) ==
    /\ rd' = [rd EXCEPT ![k] = [IdleRd EXCEPT !.pc = "dead", !.err = error]]
    /\ files' = [files EXCEPT ![rd[k].fn] = @ \o Flushed(rd[k], <<>>)]

\* the read thread k has the result v of its request
Returns(k, v) ==
    /\ rd' = [rd EXCEPT ![k] = [@ EXCEPT !.i = @ + 1, !.out = Append(@, Result(rd[k].i, v))]]
    /\ UNCHANGED files

\* a decode that returns 0 for a response it cannot decode
ModbusRequestSentinel(k) ==
    /\ \E v \in Readings(requests[rd[k].i].type), decoded \in BOOLEAN :
        IF ~connected THEN Dies(k, "SystemError")
        ELSE IF ~decoded THEN Returns(k, Num(0))
        ELSE Returns(k, v)
    /\ UNCHANGED <<mini_voltage, temperature>>

\* ModbusSerialReader.execute_request (lines 839-850) and decode (874-877)
ModbusRequest(k) ==
    /\ \E v \in Readings(requests[rd[k].i].type), decoded \in BOOLEAN :
        IF ~connected THEN Dies(k, "SystemError")
        ELSE IF ~decoded THEN Dies(k, "ValueError")
        ELSE Returns(k, v)
    /\ UNCHANGED <<mini_voltage, temperature>>

\* IrradianceReader.execute_request (lines 1305-1313)
IrradianceRequest(k) ==
    LET type == requests[rd[k].i].type IN
    IF type = "I2C"
    THEN \E v \in Voltages :
            /\ mini_voltage' = v
            /\ Returns(k, Num(v))
            /\ UNCHANGED temperature
    ELSE IF type = "SPI"
    THEN \E t \in Temperatures :
            /\ temperature' = t
            /\ Returns(k, Num(t))
            /\ UNCHANGED mini_voltage
    ELSE /\ IF mini_voltage = 0 \/ temperature = 0
            THEN Dies(k, "TypeError")
            ELSE Returns(k, Num(Irradiance(mini_voltage, temperature)))
         /\ UNCHANGED <<mini_voltage, temperature>>

\* get_output_row, lines 318-322: request i is executed
RdRequest(k) ==
    /\ rd[k].pc = "req"
    /\ rd[k].i <= Len(requests)
    /\ IF reader = "ModbusSerialReader" THEN ModbusRequest(k) ELSE IrradianceRequest(k)
    /\ UNCHANGED <<now, connected, dropbox_settings, callVars, waitVars, sinkVars, ctorVars, dropbox_client, read_interval,
                   upload_interval, mainPc, wakeAt, previous_date, output_filename,
                   tickTimes, upd, cadPc, cadWake, dispTimes, up, uploads,
                   reader, requests, database_settings, inserts, statements>>

\* the values of the INSERT of lines 1335-1341: the stamps of the row,
\* output[0] and output[1], and output[2] to output[4]
insert_values == 3
Statement(k) == [t |-> k, d |-> rd[k].date, vals |-> SubSeq(rd[k].out, 1, insert_values)]

\* lines 326-327: the row goes to the database.  Only IrradianceReader has an
\* upload_to_database (lines 1315-1349): it catches what the insert raises.
\* When the database is reached (line 1333) and output[4] is there, the
\* statement goes to cursor.execute; the database takes it when its values are
\* as many as the columns of header_row
RdInsert(k) ==
    /\ rd[k].pc = "req"
    /\ rd[k].i > Len(requests)
    /\ database_settings
    /\ rd[k].ins = "none"
    /\ IF reader = "IrradianceReader"
       THEN /\ \E reached, ok \in BOOLEAN :
                /\ ok => (reached /\ Len(rd[k].out) = insert_values)
                /\ rd' = [rd EXCEPT ![k].ins = IF ok THEN "done" ELSE "failed"]
                /\ statements' = IF reached /\ Len(rd[k].out) >= insert_values
                                  THEN [statements EXCEPT ![k] = Append(@, Statement(k))]
                                  ELSE statements
            /\ inserts' = [inserts EXCEPT ![k] = @ + 1]
            /\ UNCHANGED files
       ELSE /\ Dies(k, "AttributeError")
            /\ UNCHANGED <<inserts, statements>>
    /\ UNCHANGED <<now, connected, dropbox_settings, callVars, waitVars, sinkVars, ctorVars, dropbox_client, read_interval,
                   upload_interval, mainPc, wakeAt, previous_date, output_filename,
                   tickTimes, upd, cadPc, cadWake, dispTimes, up, uploads,
                   reader, requests, database_settings, mini_voltage, temperature>>

\* lines 323, 329, 350-351: the row is written and the file is closed
RdClose(k) ==
    /\ rd[k].pc = "req"
    /\ rd[k].i > Len(requests)
    /\ database_settings => rd[k].ins # "none"
    /\ files' = [files EXCEPT ![rd[k].fn] =
                     @ \o Flushed(rd[k], <<Row(k, rd[k].date, rd[k].out)>>)]
    /\ rd' = [rd EXCEPT ![k] = [IdleRd EXCEPT !.pc = "done"]]
    /\ UNCHANGED <<now, connected, dropbox_settings, callVars, waitVars, readerVars, sinkVars, ctorVars, dropbox_client, read_interval,
                   upload_interval, mainPc, wakeAt, previous_date, output_filename,
                   tickTimes, upd, cadPc, cadWake, dispTimes, up, uploads>>

\* ---------------------------------------------------------------- start_dropbox_upload
\* a cadence that dispatches first and waits afterwards
CadInitDispatchFirst ==
    /\ cadPc = "init"
    /\ dropbox_client' = TRUE
    /\ cadPc' = "loop"
    /\ cadWake' = now
    /\ UNCHANGED <<now, connected, dropbox_settings, callVars, waitVars, readerVars, sinkVars, ctorVars, read_interval, upload_interval,
                   mainPc, wakeAt, previous_date, output_filename, files, tickTimes,
                   upd, rd, dispTimes, up, uploads>>

\* line 409, then the first wait_for_interval is entered
CadInit ==
    /\ cadPc = "init"
    /\ dropbox_client' = TRUE
    /\ cadPc' = "loop"
    /\ cadWake' = now + upload_interval
    /\ UNCHANGED <<now, connected, dropbox_settings, callVars, waitVars, readerVars, sinkVars, ctorVars, read_interval, upload_interval,
                   mainPc, wakeAt, previous_date, output_filename, files, tickTimes,
                   upd, rd, dispTimes, up, uploads>>

\* a cadence that runs each upload itself instead of starting a thread for it
CadReadyJoined ==
    /\ cadPc = "loop"
    /\ DispCount + 1 \in DOMAIN up
    /\ now >= cadWake
    /\ \A j \in DOMAIN up : UpEnded(j)

\* wait_for_interval of line 411 has returned
CadReady ==
    /\ cadPc = "loop"
    /\ DispCount + 1 \in DOMAIN up
    /\ now >= cadWake

\* lines 411-413: one dispatch of the upload cadence
CadDispatch ==
    /\ CadReady
    /\ up' = [up EXCEPT ![DispCount + 1] = [pc |-> "run", fn |-> output_filename,
                                            snap |-> Content(output_filename)]]
    /\ dispTimes' = Append(dispTimes, now)
    /\ cadWake' = now + upload_interval
    /\ UNCHANGED <<now, connected, dropbox_settings, callVars, waitVars, readerVars, sinkVars, ctorVars, dropbox_client, read_interval,
                   upload_interval, mainPc, wakeAt, previous_date, output_filename,
                   files, tickTimes, upd, rd, cadPc, uploads>>

\* the thread of line 412: upload_to_dropbox(filename)
UpRun(j) ==
    /\ up[j].pc = "run"
    /\ \E ok \in BOOLEAN :
        /\ ok => UploadCanSucceed(up[j].fn)
        /\ up' = [up EXCEPT ![j] = [IdleUp EXCEPT !.pc = IF ok THEN "done" ELSE "failed"]]
        /\ Upload(ok, up[j].fn)
        /\ uploads' = uploads \cup {Attempt("cadence", j, up[j].fn, FALSE, ok)}
    /\ UNCHANGED <<now, connected, dropbox_settings, callVars, waitVars, readerVars, ctorVars, dropbox_client, read_interval,
                   upload_interval, mainPc, wakeAt, previous_date, output_filename,
                   files, tickTimes, upd, rd, cadPc, cadWake, dispTimes>>

\* ---------------------------------------------------------------- environment
\* the sensor connection is lost; only a request observes it, so the loss is
\* taken when a request is about to run
Disconnect ==
    /\ mainPc = "loop"
    /\ connected
    /\ \E k \in DOMAIN rd : rd[k].pc = "req"
    /\ connected' = FALSE
    /\ UNCHANGED <<now, dropbox_settings, callVars, waitVars, readerVars, sinkVars, ctorVars, dropbox_client, read_interval,
                   upload_interval, mainPc, wakeAt, previous_date, output_filename,
                   files, tickTimes, upd, rd, cadPc, cadWake, dispTimes, up, uploads>>

\* the threads that are running
Running ==
    [kind : {"update"}, id : {i \in DOMAIN upd : ~UpdEnded(i)}]
    \cup [kind : {"read"}, id : {k \in DOMAIN rd : ~RdEnded(k)}]
    \cup [kind : {"upload"}, id : {j \in DOMAIN up : ~UpEnded(j)}]

\* the next instants at which something is due
Events ==
    (IF mainPc = "loop" /\ TickCount + 1 \in DOMAIN rd THEN {wakeAt} ELSE {})
    \cup (IF cadPc = "loop" /\ DispCount + 1 \in DOMAIN up THEN {cadWake} ELSE {})
    \cup {d * SecondsPerDay : d \in 1..LastDay}

\* the clock moves to the next event, unless a loop is due to run now or a
\* thread is in statements that do no I/O
Advance ==
    /\ mainPc = "loop"
    /\ cadPc # "init"
    /\ \A i \in DOMAIN upd : upd[i].pc \notin {"start", "set1", "set2", "set3"}
    /\ ~TickReady
    /\ ~CadReady
    /\ Cardinality(Running) <= MaxLate
    /\ \E t \in Events :
        /\ t > now
        /\ \A u \in Events : u > now => t <= u
        /\ now' = t
    /\ UNCHANGED <<connected, dropbox_settings, callVars, waitVars, readerVars, sinkVars, ctorVars, dropbox_client, read_interval,
                   upload_interval, mainPc, wakeAt, previous_date, output_filename,
                   files, tickTimes, upd, rd, cadPc, cadWake, dispTimes, up, uploads>>

Next ==
    \/ StartCollection
    \/ Tick
    \/ \E i \in DOMAIN upd : UpdBegin(i)
    \/ \E i \in DOMAIN upd : UpdSetName(i)
    \/ \E i \in DOMAIN upd : UpdUpload(i)
    \/ \E k \in DOMAIN rd : RdOpen(k)
    \/ \E k \in DOMAIN rd : RdRequest(k)
    \/ \E k \in DOMAIN rd : RdClose(k)
    \/ CadInit
    \/ CadDispatch
    \/ \E j \in DOMAIN up : UpRun(j)
    \/ Disconnect
    \/ Advance

Spec == Init /\ [][Next]_vars

\* ---------------------------------------------------------------- the call
\* start_collection called with any arguments, on any Modbus reader, followed
\* through its first tick, up to the first wait_for_interval
CallTicks == 1
CallUploads == 1
CallReadIntervals == {0, 1, 60, 86400, 86401}
CallUploadIntervals == {30, 60, 120}

InitCall ==
    /\ now \in StartTimes
    /\ connected \in BOOLEAN
    /\ dropbox_settings \in BOOLEAN
    /\ database_settings \in BOOLEAN
    /\ read_interval \in CallReadIntervals
    /\ upload_interval \in CallUploadIntervals
    /\ arg_types \in [read_interval : ArgTypes, upload_interval : ArgTypes,
                      print_output : {"bool", "int"}]
    /\ reader = "ModbusSerialReader"
    /\ requests \in {[i \in 1..n |-> Request("name", "UInt16")] : n \in 0..NumRequests}
    /\ Constructed(CallTicks, CallUploads)

NextCall ==
    \/ StartCollection
    \/ Tick
    \/ \E i \in DOMAIN upd : UpdBegin(i)
    \/ \E i \in DOMAIN upd : UpdSetName(i)
    \/ \E k \in DOMAIN rd : RdOpen(k)
    \/ \E k \in DOMAIN rd : RdRequest(k)
    \/ \E k \in DOMAIN rd : RdInsert(k)
    \/ \E k \in DOMAIN rd : RdClose(k)
    \/ CadInit
    \/ Disconnect

SpecCall == InitCall /\ [][NextCall]_vars

\* ---------------------------------------------------------------- the readers
\* Two ticks of a Modbus reader with a number and a string to read, or of the
\* irradiance reader as SiSensor_Test.py sets it up, with or without a
\* database, on a day without midnight
ReaderTicks == 2
ReaderStart == 43200
ReaderSetups ==
    {[reader |-> "ModbusSerialReader",
      requests |-> <<Request("count", "UInt16"), Request("label", "UTF8")>>],
     [reader |-> "IrradianceReader",
      requests |-> <<Request("mini_volts", "I2C"), Request("temperature", "SPI"),
                     Request("irradiance", "derived")>>]}

InitReader ==
    /\ now = ReaderStart
    /\ connected = TRUE
    /\ dropbox_settings = FALSE
    /\ database_settings \in BOOLEAN
    /\ read_interval = 60
    /\ upload_interval = 300
    /\ arg_types = DefaultTypes
    /\ \E setup \in ReaderSetups :
        /\ reader = setup.reader
        /\ requests = setup.requests
    /\ Constructed(ReaderTicks, MaxUploads)

\* AdcRtd_Client.test_connection is always true (lines 46-49): only the Modbus
\* connection is lost
NextReader ==
    \/ StartCollection
    \/ Tick
    \/ \E i \in DOMAIN upd : UpdBegin(i)
    \/ \E i \in DOMAIN upd : UpdSetName(i)
    \/ \E i \in DOMAIN upd : UpdUpload(i)
    \/ \E k \in DOMAIN rd : RdOpen(k)
    \/ \E k \in DOMAIN rd : RdRequest(k)
    \/ \E k \in DOMAIN rd : RdInsert(k)
    \/ \E k \in DOMAIN rd : RdClose(k)
    \/ Disconnect /\ reader = "ModbusSerialReader"
    \/ Advance

SpecReader == InitReader /\ [][NextReader]_vars

\* ---------------------------------------------------------------- the database
\* Two ticks of an irradiance reader with a database, on a day without
\* midnight, for RequestSets of one request to four: the requests of
\* SiSensor_Test.py and a second voltage
MaxRequests == 4
InsertTicks == 2
InsertRequest(i) ==
    IF i = 1 THEN Request("mini_volts", "I2C")
    ELSE IF i = 2 THEN Request("temperature", "SPI")
    ELSE IF i = 3 THEN Request("irradiance", "derived")
    ELSE Request("mini_volts_2", "I2C")

InitInsert ==
    /\ now = ReaderStart
    /\ connected = TRUE
    /\ dropbox_settings = FALSE
    /\ database_settings = TRUE
    /\ read_interval = 60
    /\ upload_interval = 300
    /\ arg_types = DefaultTypes
    /\ reader = "IrradianceReader"
    /\ requests \in {[i \in 1..n |-> InsertRequest(i)] : n \in 1..MaxRequests}
    /\ Constructed(InsertTicks, MaxUploads)

NextInsert ==
    \/ StartCollection
    \/ Tick
    \/ \E i \in DOMAIN upd : UpdBegin(i)
    \/ \E i \in DOMAIN upd : UpdSetName(i)
    \/ \E i \in DOMAIN upd : UpdUpload(i)
    \/ \E k \in DOMAIN rd : RdOpen(k)
    \/ \E k \in DOMAIN rd : RdRequest(k)
    \/ \E k \in DOMAIN rd : RdInsert(k)
    \/ \E k \in DOMAIN rd : RdClose(k)
    \/ Advance

SpecInsert == InitInsert /\ [][NextInsert]_vars

\* ---------------------------------------------------------------- the restart
\* Two ticks of a collection that is started again on a day on which an
\* earlier run with the same RequestSet has left its file: the header and the
\* rows of its ticks
RestartTicks == 2
EarlierRows == 2
EarlierOut == [i \in DOMAIN requests |->
                  Result(i, IF reader = "ModbusSerialReader"
                            THEN CHOOSE v \in Readings(requests[i].type) : TRUE
                            ELSE Num(1))]
EarlierRow(n) == Row(RestartTicks + n, DateStamp(ReaderStart), EarlierOut)
Earlier(n) == <<HeaderLine>> \o [m \in 1..n |-> EarlierRow(m)]

InitRestart ==
    /\ now = ReaderStart
    /\ connected = TRUE
    /\ dropbox_settings = FALSE
    /\ database_settings = FALSE
    /\ read_interval = 60
    /\ upload_interval = 300
    /\ arg_types = DefaultTypes
    /\ \E setup \in ReaderSetups :
        /\ reader = setup.reader
        /\ requests = setup.requests
    /\ \E n \in 1..EarlierRows :
        ConstructedIn(RestartTicks, MaxUploads, DayFile(DateStamp(ReaderStart)) :> Earlier(n))

NextRestart ==
    \/ StartCollection
    \/ Tick
    \/ \E i \in DOMAIN upd : UpdBegin(i)
    \/ \E i \in DOMAIN upd : UpdSetName(i)
    \/ \E i \in DOMAIN upd : UpdUpload(i)
    \/ \E k \in DOMAIN rd : RdOpen(k)
    \/ \E k \in DOMAIN rd : RdRequest(k)
    \/ \E k \in DOMAIN rd : RdClose(k)
    \/ Disconnect /\ reader = "ModbusSerialReader"
    \/ Advance

SpecRestart == InitRestart /\ [][NextRestart]_vars

\* ---------------------------------------------------------------- the name
\* Two ticks of a Modbus reader, over midnight or before it, with lines 496 to
\* 498 of update_output_file taken statement by statement: the threads of
\* lines 580 and 586 both run them when the collection starts; every thread
\* ends within the interval it was started in
NameTicks == 2
NameUploads == 1

InitName ==
    /\ now \in StartTimes
    /\ connected = TRUE
    /\ dropbox_settings \in BOOLEAN
    /\ database_settings = FALSE
    /\ read_interval \in ReadIntervals
    /\ upload_interval \in UploadIntervals
    /\ arg_types = DefaultTypes
    /\ reader = "ModbusSerialReader"
    /\ requests = [i \in 1..NumRequests |-> Request("name", "UInt16")]
    /\ Constructed(NameTicks, NameUploads)

NextName ==
    \/ StartCollection
    \/ Tick
    \/ \E i \in DOMAIN upd : UpdBegin(i)
    \/ \E i \in DOMAIN upd : UpdLine496(i)
    \/ \E i \in DOMAIN upd : UpdLine497(i)
    \/ \E i \in DOMAIN upd : UpdLine498(i)
    \/ \E i \in DOMAIN upd : UpdUpload(i)
    \/ \E k \in DOMAIN rd : RdOpen(k)
    \/ \E k \in DOMAIN rd : RdRequest(k)
    \/ \E k \in DOMAIN rd : RdClose(k)
    \/ CadInit
    \/ CadDispatch
    \/ \E j \in DOMAIN up : UpRun(j)
    \/ Advance /\ Running = {}

SpecName == InitName /\ [][NextName]_vars

\* ---------------------------------------------------------------- the stop
\* Two ticks of either reader, over midnight or before it, in which the
\* connection can be lost and the loop itself can fail; every thread ends
\* within the interval it was started in
StopTicks == 2
StopUploads == 1

InitStop ==
    /\ now \in StartTimes
    /\ connected = TRUE
    /\ dropbox_settings \in BOOLEAN
    /\ database_settings \in BOOLEAN
    /\ read_interval \in ReadIntervals
    /\ upload_interval \in UploadIntervals
    /\ arg_types = DefaultTypes
    /\ \E setup \in ReaderSetups :
        /\ reader = setup.reader
        /\ requests = setup.requests
    /\ Constructed(StopTicks, StopUploads)

NextStop ==
    \/ StartCollection
    \/ Tick
    \/ \E at \in {"update", "read"} : LoopFails(at)
    \/ \E i \in DOMAIN upd : UpdBegin(i)
    \/ \E i \in DOMAIN upd : UpdSetName(i)
    \/ \E i \in DOMAIN upd : UpdUpload(i)
    \/ \E k \in DOMAIN rd : RdOpen(k)
    \/ \E k \in DOMAIN rd : RdRequest(k)
    \/ \E k \in DOMAIN rd : RdInsert(k)
    \/ \E k \in DOMAIN rd : RdClose(k)
    \/ CadInit
    \/ CadDispatch
    \/ \E j \in DOMAIN up : UpRun(j)
    \/ Disconnect /\ reader = "ModbusSerialReader"
    \/ Advance /\ Running = {}

SpecStop == InitStop /\ [][NextStop]_vars

\* ---------------------------------------------------------------- the scenario
\* The irradiance reader of SiSensor_Test.py with a Dropbox sink, read every
\* 60 s and uploaded every 300 s, from its first tick T0 to the instant
\* T0 + 300 at which the sixth tick and the first dispatch are both due; every
\* thread ends within the interval it was started in
ScenarioTicks == 6
ScenarioUploads == 1
SiSensor == CHOOSE setup \in ReaderSetups : setup.reader = "IrradianceReader"

InitScenario ==
    /\ now = ReaderStart
    /\ connected = TRUE
    /\ dropbox_settings = TRUE
    /\ database_settings = FALSE
    /\ read_interval = 60
    /\ upload_interval = 300
    /\ arg_types = DefaultTypes
    /\ reader = SiSensor.reader
    /\ requests = SiSensor.requests
    /\ Constructed(ScenarioTicks, ScenarioUploads)

NextScenario ==
    \/ StartCollection
    \/ Tick
    \/ \E i \in DOMAIN upd : UpdBegin(i)
    \/ \E i \in DOMAIN upd : UpdSetName(i)
    \/ \E i \in DOMAIN upd : UpdUpload(i)
    \/ \E k \in DOMAIN rd : RdOpen(k)
    \/ \E k \in DOMAIN rd : RdRequest(k)
    \/ \E k \in DOMAIN rd : RdClose(k)
    \/ CadInit
    \/ CadDispatch
    \/ \E j \in DOMAIN up : UpRun(j)
    \/ Advance /\ Running = {}

SpecScenario == InitScenario /\ [][NextScenario]_vars

\* ---------------------------------------------------------------- the construction
\* BaseReader.__init__ called with every combination of the arguments above,
\* in a current directory that has the output folder or has not
InitCtor ==
    /\ now = 0
    /\ connected = TRUE
    /\ dropbox_settings = FALSE
    /\ database_settings = FALSE
    /\ read_interval = 60
    /\ upload_interval = 120
    /\ arg_types = DefaultTypes
    /\ reader = "BaseReader"
    /\ requests = <<>>
    /\ kwargs \in [sensor_name : NameArgs, sensor_location : NameArgs,
                   dropbox_keys : KeysArgs(dropbox_check_keys),
                   database_keys : KeysArgs(database_check_keys),
                   delimiter : DelimiterArgs, output_file_ext : ExtArgs,
                   output_file_folder : FolderArgs]
    /\ dirs \in {{}, {DefaultArgs.output_file_folder.val}}
    /\ ctorPc = "call"
    /\ ctor_raised = "none"
    /\ dropbox_client = FALSE
    /\ mainPc = "validate"
    /\ wakeAt = 0
    /\ previous_date = 0
    /\ output_filename = NoName
    /\ files = <<>>
    /\ tickTimes = <<>>
    /\ upd = [i \in 0..1 |-> IdleUpd]
    /\ rd = [k \in 1..1 |-> IdleRd]
    /\ cadPc = "off"
    /\ cadWake = 0
    /\ dispTimes = <<>>
    /\ up = [j \in 1..1 |-> IdleUp]
    /\ uploads = {}
    /\ raised = "none"
    /\ conn_tests = 0
    /\ header_row = NoHeader
    /\ mini_voltage = 0
    /\ temperature = 0
    /\ inserts = [k \in 1..1 |-> 0]
    /\ statements = [k \in 1..1 |-> <<>>]
    /\ utc = 0
    /\ wait = IdleWait
    /\ starts = <<>>
    /\ sink = <<>>
    /\ reuploads = 0

NextCtor == BaseReaderInit

SpecCtor == InitCtor /\ [][NextCtor]_vars

\* ---------------------------------------------------------------- the waits
\* The thread of start_collection from line 572 on, on the sub-second clock:
\* wait_next_minute, then the loop with its wait_for_interval.  The threads it
\* starts are left where they start.  sleep(x) returns x or more after it was
\* called; the busy loops of lines 435 and 454 return at the first instant
\* their condition is false.
StepsPerSecond == 10
HalfSecond == 5            \* the 0.5 of line 431
interval_threshold == 9    \* threshold=900000 of line 415
minute_threshold == 57     \* threshold=57 of line 438
MaxMinuteOvershoot == 40   \* overshoot explored for the sleep of wait_next_minute
MaxOvershoot == 2          \* overshoot explored for the sleeps of wait_for_interval
MaxLatency == 5            \* steps from the return of a wait to the next wait
WaitTicks == 3             \* ticks explored
WaitIntervals == {1, 2}

\* datetime.utcnow().second and .microsecond, the latter in steps
Second(t) == (t \div StepsPerSecond) % 60
Microsecond(t) == t % StepsPerSecond
Minute(t) == t \div (60 * StepsPerSecond)
\* the whole second t lies in
Boundary(t) == t - Microsecond(t)

InitWait ==
    /\ now = 0
    /\ connected = TRUE
    /\ dropbox_settings \in BOOLEAN
    /\ read_interval \in WaitIntervals
    /\ upload_interval = 300
    /\ arg_types = DefaultTypes
    /\ reader = "ModbusSerialReader"
    /\ requests = [i \in 1..NumRequests |-> Request("name", "UInt16")]
    /\ database_settings = FALSE
    /\ dropbox_client = FALSE
    /\ mainPc = "wait_next_minute"
    /\ wakeAt = 0
    /\ previous_date = 0
    /\ output_filename = NoName
    /\ files = <<>>
    /\ tickTimes = <<>>
    /\ upd = [i \in 0..WaitTicks |-> IdleUpd]
    /\ rd = [k \in 1..WaitTicks |-> IdleRd]
    /\ cadPc = "off"
    /\ cadWake = 0
    /\ dispTimes = <<>>
    /\ up = [j \in 1..MaxUploads |-> IdleUp]
    /\ uploads = {}
    /\ raised = "none"
    /\ conn_tests = 1
    /\ header_row = get_header(requests)
    /\ mini_voltage = 0
    /\ temperature = 0
    /\ inserts = [k \in 1..WaitTicks |-> 0]
    /\ statements = [k \in 1..WaitTicks |-> <<>>]
    /\ utc \in 0..(60 * StepsPerSecond - 1)
    /\ wait = IdleWait
    /\ starts = <<>>
    /\ sink = <<>>
    /\ reuploads = 0
    /\ Built

WaitUnchanged ==
    UNCHANGED <<now, connected, dropbox_settings, dropbox_client, read_interval,
                upload_interval, wakeAt, previous_date, output_filename, files,
                tickTimes, cadWake, dispTimes, up, uploads, callVars, readerVars, sinkVars, ctorVars>>

\* line 572, lines 451-452: wait_next_minute is entered and reads the second
WnmEnter ==
    /\ mainPc = "wait_next_minute"
    /\ wait.fn = "none"
    /\ wait' = [IdleWait EXCEPT !.fn = "wait_next_minute", !.entered = utc,
                   !.pc = IF Second(utc) < minute_threshold THEN "sleep" ELSE "spin"]
    /\ UNCHANGED <<utc, starts, mainPc, cadPc, upd, rd>>
    /\ WaitUnchanged

\* line 453: sleep(threshold - seconds)
WnmSleep ==
    /\ wait.fn = "wait_next_minute"
    /\ wait.pc = "sleep"
    /\ \E over \in 0..MaxMinuteOvershoot :
        /\ utc' = utc + (minute_threshold - Second(utc)) * StepsPerSecond + over
        /\ wait' = [wait EXCEPT !.pc = "spin", !.over1 = over]
    /\ UNCHANGED <<starts, mainPc, cadPc, upd, rd>>
    /\ WaitUnchanged

\* a wait_next_minute without the busy loop of lines 454-455
WnmSpinLeftOut ==
    /\ wait.fn = "wait_next_minute"
    /\ wait.pc = "spin"
    /\ wait' = [wait EXCEPT !.pc = "returned"]
    /\ UNCHANGED <<utc, starts, mainPc, cadPc, upd, rd>>
    /\ WaitUnchanged

\* lines 454-455: busy until the second is below the threshold
WnmSpin ==
    /\ wait.fn = "wait_next_minute"
    /\ wait.pc = "spin"
    /\ utc' = IF Second(utc) >= minute_threshold
              THEN (Minute(utc) + 1) * 60 * StepsPerSecond
              ELSE utc
    /\ wait' = [wait EXCEPT !.pc = "returned"]
    /\ UNCHANGED <<starts, mainPc, cadPc, upd, rd>>
    /\ WaitUnchanged

\* lines 575-581 after wait_next_minute, then lines 586-595: the threads of a
\* tick are started and wait_for_interval is entered
WaitTick ==
    /\ wait.pc = "returned"
    /\ Len(starts) + 1 \in DOMAIN rd
    /\ LET k == Len(starts) + 1 IN
        /\ starts' = Append(starts, utc)
        /\ mainPc' = "loop"
        /\ cadPc' = IF mainPc = "loop" THEN cadPc
                    ELSE IF dropbox_settings THEN "init" ELSE "off"
        /\ upd' = [i \in DOMAIN upd |->
                      IF i = k \/ (i = 0 /\ mainPc # "loop")
                      THEN [IdleUpd EXCEPT !.pc = "start"] ELSE upd[i]]
        /\ rd' = [rd EXCEPT ![k] = [IdleRd EXCEPT !.pc = "open"]]
        /\ \E latency \in 0..MaxLatency :
            /\ utc' = utc + latency
            /\ wait' = [IdleWait EXCEPT !.fn = "wait_for_interval", !.pc = "sleep1",
                           !.entered = utc + latency]
    /\ WaitUnchanged

\* a wait that sleeps the whole interval and aligns to nothing
WfiNaive ==
    /\ wait.fn = "wait_for_interval"
    /\ wait.pc = "sleep1"
    /\ \E over \in 0..MaxOvershoot :
        /\ utc' = utc + read_interval * StepsPerSecond + over
        /\ wait' = [wait EXCEPT !.over1 = over, !.pc = "returned"]
    /\ UNCHANGED <<starts, mainPc, cadPc, upd, rd>>
    /\ WaitUnchanged

\* lines 431-433: sleep(interval - 0.5), then the microsecond is read
WfiSleep1 ==
    /\ wait.fn = "wait_for_interval"
    /\ wait.pc = "sleep1"
    /\ \E over \in 0..MaxOvershoot :
        /\ utc' = utc + read_interval * StepsPerSecond - HalfSecond + over
        /\ wait' = [wait EXCEPT !.over1 = over,
                       !.pc = IF Microsecond(utc') < interval_threshold
                              THEN "sleep2" ELSE "spin"]
    /\ UNCHANGED <<starts, mainPc, cadPc, upd, rd>>
    /\ WaitUnchanged

\* line 434: sleep((threshold - microsecs) / 1000000.)
WfiSleep2 ==
    /\ wait.fn = "wait_for_interval"
    /\ wait.pc = "sleep2"
    /\ \E over \in 0..MaxOvershoot :
        /\ utc' = utc + (interval_threshold - Microsecond(utc)) + over
        /\ wait' = [wait EXCEPT !.over2 = over, !.pc = "spin"]
    /\ UNCHANGED <<starts, mainPc, cadPc, upd, rd>>
    /\ WaitUnchanged

\* lines 435-436: busy until the microsecond is below the threshold
WfiSpin ==
    /\ wait.fn = "wait_for_interval"
    /\ wait.pc = "spin"
    /\ utc' = IF Microsecond(utc) >= interval_threshold
              THEN Boundary(utc) + StepsPerSecond
              ELSE utc
    /\ wait' = [wait EXCEPT !.pc = "returned"]
    /\ UNCHANGED <<starts, mainPc, cadPc, upd, rd>>
    /\ WaitUnchanged

NextWait ==
    \/ WnmEnter
    \/ WnmSleep
    \/ WnmSpin
    \/ WaitTick
    \/ WfiSleep1
    \/ WfiSleep2
    \/ WfiSpin

SpecWait == InitWait /\ [][NextWait]_vars

\* ---------------------------------------------------------------- claims
IsRow(l) == l.t > 0
RowsOf(k) == {x \in {<<fn, p>> : fn \in DOMAIN files, p \in 1..(MaxTicks * 2)} :
                 x[2] <= Len(files[x[1]]) /\ files[x[1]][x[2]] .t = k}

\* C1: in every output file the header row occurs exactly once and is the
\* first line, before any data row.
C1_HeaderOnceFirst ==
    \A fn \in DOMAIN files :
        files[fn] # <<>> =>
            /\ Head(files[fn]) = HeaderLine
            /\ \A p \in 2..Len(files[fn]) : files[fn][p] # HeaderLine

\* C2: within one output file the data rows appear in tick order.
C2_RowsInTickOrder ==
    \A fn \in DOMAIN files :
        \A p, q \in 1..Len(files[fn]) :
            (p < q /\ IsRow(files[fn][p]) /\ IsRow(files[fn][q]))
                => files[fn][p].t < files[fn][q].t

\* C3: every row is in the file named for the row's own date stamp, so the
\* rows of one calendar day are in a single file.
C3_RowInItsDayFile ==
    \A fn \in DOMAIN files :
        \A p \in 1..Len(files[fn]) :
            IsRow(files[fn][p]) => fn = DayFile(files[fn][p].d)

\* C4: no tick appends more than one row, and a tick whose read task has
\* ended without a failed request has appended its row.
C4_OneRowPerTick ==
    \A k \in 1..MaxTicks :
        /\ Cardinality(RowsOf(k)) <= 1
        /\ (rd[k].pc \in {"done", "dead"} /\ rd[k].err \notin {"SystemError", "ValueError"})
               => Cardinality(RowsOf(k)) = 1

RotationUploads == {a \in uploads : a.src = "update" /\ a.rot}

\* two consecutive ticks have straddled the midnight between day 1 and day 2
Straddled ==
    \E n \in 2..TickCount :
        DateStamp(tickTimes[n - 1]) = 1 /\ DateStamp(tickTimes[n]) = 2

C6_NoTickAfterConnectionLoss ==
    [][(\E k \in 1..MaxTicks : rd[k].err = "SystemError") => tickTimes' = tickTimes]_vars

\* C7: tick N+1 starts exactly one read interval after tick N, whatever the
\* tasks of the earlier ticks are doing.
C7_TicksOnSchedule ==
    \A n \in 1..TickCount :
        /\ tickTimes[n] = tickTimes[1] + (n - 1) * read_interval
        /\ rd[n].pc # "idle"

\* tick N+1 has started while the read task of tick N is still running and an
\* upload attempt has failed
C7_Witness ==
    \E n \in 1..MaxTicks :
        /\ n < TickCount
        /\ rd[n].pc = "req"
        /\ \E j \in 1..MaxUploads : up[j].pc = "failed"

\* C8: periodic upload N+1 is dispatched exactly one upload interval after
\* upload N, each as a thread of its own, whatever became of the earlier uploads.
C8_UploadsOnSchedule ==
    \A n \in 1..DispCount :
        /\ dispTimes[n] = tickTimes[1] + n * upload_interval
        /\ up[n].pc # "idle"

\* upload N+1 has been dispatched while upload N is still running
C8_Witness ==
    /\ DispCount >= 2
    /\ up[1].pc = "run"
    /\ up[2].pc \in {"run", "failed"}

\* C9: at most one read task holds an output file open at any instant.
C9_SingleOpenHandle ==
    Cardinality({k \in 1..MaxTicks : rd[k].pc = "req"}) <= 1

\* C10: within each tick, the file-name update of that tick has completed
\* before that tick's append opens output_filename.
C10_UpdateBeforeAppend ==
    \A k \in 1..MaxTicks :
        rd[k].pc \notin {"idle", "open"} => upd[k].pc \notin {"start", "set1"}

\* ---------------------------------------------------------------- the call
ConfigurationErrors == {"TypeError", "ValueError"}

ValidReadInterval ==
    /\ arg_types.read_interval = "int"
    /\ read_interval >= 1
    /\ read_interval <= SecondsPerDay

OtherArgumentsValid ==
    /\ dropbox_settings =>
           (arg_types.upload_interval = "int" /\ upload_interval >= read_interval)
    /\ arg_types.print_output = "bool"

InvalidInterval ==
    \/ ~ValidReadInterval
    \/ /\ dropbox_settings
       /\ arg_types.upload_interval # "int" \/ upload_interval < read_interval

NothingStarted ==
    /\ tickTimes = <<>>
    /\ files = <<>>
    /\ cadPc = "off"
    /\ dispTimes = <<>>
    /\ \A i \in DOMAIN upd : upd[i].pc = "idle"
    /\ \A k \in DOMAIN rd : rd[k].pc = "idle"
    /\ \A j \in DOMAIN up : up[j].pc = "idle"

\* C11: once start_collection has been called, a read_interval that is an
\* integer in 1..86400 has not made it fail with a configuration error, and
\* any other read_interval has made it fail with a TypeError or a ValueError
\* with no tick executed.
C11_ReadIntervalRange ==
    mainPc # "validate" =>
        IF ValidReadInterval
        THEN (OtherArgumentsValid /\ mainPc = "raised") => raised \notin ConfigurationErrors
        ELSE mainPc = "raised" /\ raised \in ConfigurationErrors /\ tickTimes = <<>>

\* C12: if a dropbox sink or a database sink is configured and upload_interval
\* is less than read_interval, the call has failed with a configuration error
\* and no tick is executed.
C12_SinkNeedsUploadInterval ==
    (/\ mainPc # "validate"
     /\ dropbox_settings \/ database_settings
     /\ upload_interval < read_interval)
        => (mainPc = "raised" /\ raised \in ConfigurationErrors /\ tickTimes = <<>>)

\* C13: when the call has failed on an invalid read or upload interval, the
\* error is the configuration error and nothing has been done before it: no
\* call of test_connection, no file, no thread.
C13_ConfigurationErrorBeforeIO ==
    (mainPc = "raised" /\ InvalidInterval)
        => (raised \in ConfigurationErrors /\ conn_tests = 0 /\ NothingStarted)

\* C14: a call made while test_connection() is false fails with the connection
\* error; after it no tick has run, no file is written, no upload cadence is
\* started, the connection has been tested once, and nothing follows.
C14_ConnectionErrorFirst ==
    /\ [][(mainPc = "validate" /\ ~connected)
             => (mainPc' = "raised" /\ raised' = "SystemError")]_vars
    /\ []((mainPc = "raised" /\ raised = "SystemError")
             => (NothingStarted /\ conn_tests = 1 /\ ~ENABLED NextCall))

\* the call has failed on the connection, with both sinks configured and
\* valid intervals
C14_Witness ==
    /\ mainPc = "raised"
    /\ raised = "SystemError"
    /\ conn_tests = 1
    /\ dropbox_settings
    /\ database_settings
    /\ ~InvalidInterval

\* the header the names of the RequestSet ask for
HeaderOf(reqs) ==
    Join(<<<<"date_stamp">>, <<"time_stamp">>>> \o [i \in DOMAIN reqs |-> <<reqs[i].name>>])
        \o <<"\n">>

\* C29: header_row is built before the first tick, it is 'date_stamp',
\* 'time_stamp' and the names of the requests in RequestSet order, joined by
\* the delimiter and ended by a line break, and once built it never changes
C29_HeaderBuiltOnce ==
    /\ [](mainPc = "loop" => header_row = HeaderOf(requests))
    /\ [](TickCount > 0 => header_row # NoHeader)
    /\ [][header_row # NoHeader => header_row' = header_row]_vars

\* ---------------------------------------------------------------- the waits
\* C15: when wait_next_minute returns after a sleep that overshot by less than
\* 3 s, the UTC second-of-minute is 0 and the minute is later than the one it
\* was entered in, for every instant of a minute at which it is entered; and
\* no tick, update thread or upload cadence has started before it returns.
C15_FirstTickOnTheMinute ==
    /\ (/\ wait.fn = "wait_next_minute"
        /\ wait.pc = "returned"
        /\ wait.over1 < 3 * StepsPerSecond)
           => (Second(utc) = 0 /\ Minute(utc) > Minute(wait.entered))
    /\ wait.fn \in {"none", "wait_next_minute"}
           => (/\ starts = <<>>
               /\ cadPc = "off"
               /\ \A i \in DOMAIN upd : upd[i].pc = "idle"
               /\ \A k \in DOMAIN rd : rd[k].pc = "idle")

\* wait_next_minute, entered in the last tenth of second 56, has returned
\* after its sleep overshot by 2.9 s: inside second 0, not at its start
C15_Witness ==
    /\ wait.fn = "wait_next_minute"
    /\ wait.pc = "returned"
    /\ Second(wait.entered) = 56
    /\ wait.over1 = 3 * StepsPerSecond - 1
    /\ Second(utc) = 0
    /\ Microsecond(utc) # 0

RECURSIVE Cells(_)
Cells(text) ==
    IF \A p \in 1..Len(text) : text[p] # delimiter THEN <<text>>
    ELSE LET p == CHOOSE q \in 1..Len(text) :
                      text[q] = delimiter /\ \A r \in 1..(q - 1) : text[r] # delimiter
         IN  <<SubSeq(text, 1, p - 1)>> \o Cells(SubSeq(text, p + 1, Len(text)))

DataRows == {l \in UNION {{files[fn][p] : p \in 1..Len(files[fn])} : fn \in DOMAIN files} :
                IsRow(l)}

\* C17: a read thread has executed the first requests of the RequestSet, in
\* order and once each, and every row written has, after its two stamps, one
\* field for every request, field i holding the value of request i.
C17_RequestsInOrder ==
    /\ \A k \in DOMAIN rd :
           rd[k].pc = "req" =>
               /\ Len(rd[k].out) = rd[k].i - 1
               /\ \A j \in 1..Len(rd[k].out) : rd[k].out[j].req = j
    /\ \A l \in DataRows :
           /\ Len(l.out) = Len(requests)
           /\ \A j \in 1..Len(l.out) : l.out[j].req = j
           /\ 2 + Fields(l.cols) = 2 + Len(requests)
           /\ \A j \in 1..Len(requests) : Cells(l.cols)[j] = Str(l.out[j].val)

\* C18: in every row of the irradiance reader with its two raw requests and
\* its derived request, the derived column is the function of the two raw
\* values of the same row.
C18_DerivedFromOwnRow ==
    reader = "IrradianceReader" =>
        \A l \in DataRows :
            l.out[3].val = Num(Irradiance(l.out[1].val.n, l.out[2].val.n))

\* C20: with a database configured, a tick calls the insert at most once, no
\* exception leaves the insert step, a thread that wrote its row has made its
\* insert, and a thread that made its insert has written its row when it ends.
C20_InsertCaught ==
    database_settings =>
        \A k \in DOMAIN rd :
            /\ inserts[k] <= 1
            /\ rd[k].err # "AttributeError"
            /\ rd[k].pc = "done" => inserts[k] = 1
            /\ (inserts[k] = 1 /\ RdEnded(k)) => Cardinality(RowsOf(k)) = 1

\* C27: every line of every output file is the header or the row of a tick
\* with its two stamps and one field for every request of the RequestSet, and
\* a read thread that ended with an exception has left no row
C27_CompleteLines ==
    /\ \A fn \in DOMAIN files : \A p \in 1..Len(files[fn]) :
           LET l == files[fn][p] IN
               \/ l = HeaderLine
               \/ /\ IsRow(l)
                  /\ Len(l.out) = Len(requests)
                  /\ 2 + Fields(l.cols) = 2 + Len(requests)
    /\ \A k \in DOMAIN rd : rd[k].pc = "dead" => RowsOf(k) = {}

\* ---------------------------------------------------------------- the scenario
\* the five ticks have been taken, their threads have ended, and the upload
\* cadence has run what its wait of 300 s made due
FiveTicksDone ==
    /\ TickCount = 5
    /\ now >= tickTimes[1] + upload_interval
    /\ ~CadReady
    /\ \A i \in DOMAIN upd : UpdEnded(i)
    /\ \A k \in DOMAIN rd : RdEnded(k)

\* C19: with read_interval = 60, upload_interval = 300 and a Dropbox sink,
\* after 5 ticks of one day the upload cadence has dispatched exactly one
\* upload and the output file of the day holds the header and exactly 5 rows
C19_FiveRowsOneUpload ==
    FiveTicksDone =>
        /\ DispCount = 1
        /\ LET fn == DayFile(DateStamp(now)) IN
            /\ fn \in DOMAIN files
            /\ Len(files[fn]) = 6
            /\ files[fn][1] = HeaderLine
            /\ \A p \in 2..6 : IsRow(files[fn][p])

\* ---------------------------------------------------------------- the uploads
\* the upload attempts made in a step
NewAttempts == uploads' \ uploads

\* the read threads that hold the file fn open
Writers(fn) == {k \in DOMAIN rd : rd[k].pc = "req" /\ rd[k].fn = fn}

\* C21: the file the upload cadence submits at a dispatch is the value
\* output_filename has at that moment; it is never the unset name (None) and
\* never a file of a day before the file that is open
C21_UploadsCurrentFile ==
    [][DispCount' = DispCount + 1 =>
          /\ up'[DispCount'].fn = output_filename
          /\ output_filename # NoName
          /\ \A fn \in DOMAIN files : fn.date <= output_filename.date]_vars

\* the cadence has dispatched after a rotation: the old day's file exists and
\* the new day's file is the one submitted
C21_Witness ==
    /\ DispCount >= 1
    /\ DayFile(1) \in DOMAIN files
    /\ up[DispCount].pc = "run"
    /\ up[DispCount].fn = DayFile(2)

\* C22: no upload is attempted on the file that is the active write target
\* (output_filename), and the upload made at a rotation targets the previous
\* day's file when no read thread holds it open any more
C22_NoUploadOfActiveFile ==
    [][\A a \in NewAttempts :
          /\ a.fn # output_filename
          /\ a.rot => a.fn = DayFile(DateStamp(now) - 1) /\ Writers(a.fn) = {}]_vars

\* C25: a failed upload starts no other upload, and once the upload of a
\* rotation has been attempted for a file, no upload of that file is attempted
\* any more
C25_NoUploadAfterRotation ==
    [][/\ \A j \in DOMAIN up : up[j].pc = "run" /\ up'[j].pc = "failed" =>
              /\ dispTimes' = dispTimes
              /\ \A h \in DOMAIN up : h # j => up'[h] = up[h]
       /\ \A a \in NewAttempts :
              ~\E r \in uploads : r.rot /\ r.fn = a.fn]_vars

\* C26: what an upload of the cadence puts in the folder is the content the
\* file had when the upload was dispatched, without the rows appended since
C26_SendsSubmitSnapshot ==
    [][\A j \in DOMAIN up :
          (up[j].pc = "run" /\ up'[j].pc = "done") =>
              sink'[up[j].fn] = up[j].snap]_vars

\* the rows of a content
RowsIn(content) == {p \in 1..Len(content) : IsRow(content[p])}

C23_LoopExitTestsConnection ==
    /\ [][(mainPc = "loop" /\ mainPc' # "loop") =>
             /\ conn_tests' = conn_tests + 1
             /\ IF connected
                THEN mainPc' = "returned" /\ raised' = "none"
                ELSE mainPc' = "raised" /\ raised' = "SystemError"]_vars
    /\ [][(mainPc = "returned" \/ mainPc = "raised") =>
             (mainPc' = mainPc /\ raised' = raised /\ tickTimes' = tickTimes)]_vars

\* the loop has failed after a tick on a reader whose connection was lost
C23_Witness ==
    /\ TickCount >= 1
    /\ mainPc = "raised"
    /\ raised = "SystemError"
    /\ conn_tests = 2

\* a task fails in the step: a read thread ends with an exception, an insert
\* fails, an upload thread fails, or an upload attempt puts nothing
TaskFails ==
    \/ \E k \in DOMAIN rd : rd[k].pc # "dead" /\ rd'[k].pc = "dead"
    \/ \E k \in DOMAIN rd : rd[k].ins # "failed" /\ rd'[k].ins = "failed"
    \/ \E j \in DOMAIN up : up[j].pc # "failed" /\ up'[j].pc = "failed"
    \/ uploads' # uploads /\ UNCHANGED sinkVars

\* the wait of the loop is over and a tick is left to explore
TickDue ==
    /\ mainPc = "loop"
    /\ TickCount + 1 \in DOMAIN rd
    /\ now >= wakeAt

C28_UpdateSetsName ==
    [][\A i \in DOMAIN upd :
          /\ (upd[i].pc = "set3" /\ upd'[i].pc # "set3") =>
                 /\ output_filename' = DayFile(upd[i].date)
                 /\ uploads' = uploads
          /\ (upd[i].pc = "upload" /\ upd'[i].pc # "upload" /\ upd[i].date # upd[i].prev) =>
                 /\ output_filename = DayFile(upd[i].date)
                 /\ \E ok \in BOOLEAN : Attempt("update", i, upd[i].pf, TRUE, ok) \in uploads'
                 /\ upd[i].pf = DayFile(upd[i].prev)]_vars

\* ---------------------------------------------------------------- the transport
\* C31: a Modbus request whose response cannot be decoded ends its read thread
\* with ValueError, and the tick appends no row; every value a read thread
\* holds, and every value of a row, is a decoding of its request's registers
C31_UndecodableAborts ==
    reader = "ModbusSerialReader" =>
        /\ \A k \in DOMAIN rd :
               /\ rd[k].err = "ValueError" => (rd[k].pc = "dead" /\ RowsOf(k) = {})
               /\ \A j \in 1..Len(rd[k].out) :
                      rd[k].out[j].val \in Readings(requests[rd[k].out[j].req].type)
        /\ \A l \in DataRows : \A j \in 1..Len(l.out) :
               l.out[j].val \in Readings(requests[l.out[j].req].type)

\* the second request of the first tick could not be decoded, and the second
\* tick has written its row
C31_Witness ==
    /\ reader = "ModbusSerialReader"
    /\ rd[1].err = "ValueError"
    /\ \E l \in DataRows : l.t = 2
    /\ RowsOf(1) = {}

\* ---------------------------------------------------------------- the construction
\* C32: a constructor that raises has left the directories as they were
C32_ConfigErrorBeforeIO ==
    [][(ctor_raised' # "none") => (dirs' = dirs)]_vars

\* ---------------------------------------------------------------- the remote copy
\* an upload of the file fn is still to run
Pending(fn) ==
    \/ \E j \in DOMAIN up : up[j].pc = "run" /\ up[j].fn = fn
    \/ \E i \in DOMAIN upd : upd[i].pc = "upload" /\ upd[i].pf = fn

\* the upload of a rotation has put the file fn
Rotated(fn) == \E a \in uploads : a.rot /\ a.ok /\ a.fn = fn

\* C33: once the upload of a rotation has put a file and no upload of the file
\* is still to run, every row of the local file is in the remote copy
C33_RemoteCopyComplete ==
    \A fn \in DOMAIN files :
        (Rotated(fn) /\ ~Pending(fn)) =>
            /\ fn \in DOMAIN sink
            /\ \A p \in RowsIn(files[fn]) :
                   \E q \in RowsIn(sink[fn]) : sink[fn][q] = files[fn][p]

\* ---------------------------------------------------------------- the upload of a tick
\* the upload attempts update_output_file has made for the tick i
AttemptsOf(i) == {a \in uploads : a.src = "update" /\ a.id = i}

C35_UploadOnlyWithClient ==
    [][NewAttempts # {} => (dropbox_settings /\ dropbox_client)]_vars

C37_InsertEqualsRow ==
    \A k \in DOMAIN rd : \A i \in 1..Len(statements[k]) : \A x \in RowsOf(k) :
        LET l == files[x[1]][x[2]]
            st == statements[k][i]
        IN  /\ st.t = l.t
            /\ st.d = l.d
            /\ st.vals = l.out

\* C38: with a database configured, a read thread whose requests have all
\* returned their values ends with its row appended to the file
C38_DatabaseKeepsRows ==
    [][(database_settings) =>
          (\A k \in DOMAIN rd :
              (rd[k].pc = "req" /\ rd[k].i > Len(requests) /\ rd'[k].pc # "req") =>
                  (rd'[k].pc = "done" /\ RowsOf(k)' # {}))]_vars

\* ---------------------------------------------------------------- the frame of the name
\* the update_output_file thread i takes a step
UpdStep(i) ==
    /\ upd[i].pc \in {"start", "set1", "set2", "set3", "upload"}
    /\ upd'[i] # upd[i]

\* C39: a step of an update_output_file whose date is the previous date it was
\* given leaves output_filename as it is; output_filename changes only in a
\* step of an update_output_file whose date differs from the previous date it
\* was given; and no step of update_output_file changes header_row or what the
\* constructor was given
C39_NameFrame ==
    [][/\ \A i \in DOMAIN upd : UpdStep(i) =>
              /\ header_row' = header_row
              /\ kwargs' = kwargs
              /\ (upd[i].pc # "start" /\ upd[i].date = upd[i].prev) =>
                     output_filename' = output_filename
              /\ upd[i].pc \in {"start", "upload"} => output_filename' = output_filename
       /\ (output_filename' # output_filename) =>
              (\E i \in DOMAIN upd : UpdStep(i) /\ upd[i].date # upd[i].prev)]_vars

\* the second tick's update_output_file has found the date of the first tick
\* and has made its upload, and the name is the one the first tick has set
C39_Witness ==
    /\ \E a \in AttemptsOf(2) : ~a.rot
    /\ upd[2].pc = "done"
    /\ output_filename = DayFile(DateStamp(now))
    /\ header_row # NoHeader

====
